---- MODULE Spec2Model ----
(***************************************************************************)
(* Claude-Slack bridge: the message splitter (split_long_message) and the  *)
(* threaded delivery of an answer to Slack                                 *)
(* (process_claude_and_send_to_slack) in its three variants:               *)
(*   "util"  - src/app/util.py  (async, try/except, chunking)              *)
(*   "utils" - src/app/utils.py (sync, no exception handling, chunking)    *)
(*   "main"  - src/app/main.py  (async, try/except, no chunking)           *)
(*                                                                         *)
(* A text is a sequence of one-character strings.                          *)
(*                                                                         *)
(* Specifications:                                                         *)
(*   SpecSplit   - split_long_message on every short text                  *)
(*   Spec        - one delivery of an answer                               *)
(*   SpecSession - the session store (SessionManager of src/app/utils.py), *)
(*                 its two instances and the routes of src/app/router.py   *)
(*                 and src/app/web_router.py                               *)
(*   SpecHttp    - one request to the app of src/app/main.py: middleware,  *)
(*                 key check, handler, background task                     *)
(***************************************************************************)
EXTENDS Integers, Sequences, FiniteSets, TLC

\* ------------------------------------------------------------------ bounds

\* Longest text given to the splitter in SpecSplit.
MaxLen == 6

\* Largest max_length given to the splitter in SpecSplit.
MaxLimit == 4

\* Largest number of words (runs of non-separator characters) in an answer
\* returned by the completion call in Spec.
MaxUnits == 2

\* ------------------------------------------------------------------ texts

\* The characters the splitter distinguishes: a newline, a space, anything else.
NL == "\n"

SP == " "

Chars == {"a", SP, NL}

\* The empty str.
Empty == <<>>

\* c * n
Rep(c, n) == [i \in 1..n |-> c]

Min(S) == CHOOSE x \in S : \A y \in S : x <= y

\* The start indexes >= from of an occurrence of sep in s.
Occurrences(s, sep, from) ==
    {i \in from..(Len(s) - Len(sep) + 1) : \A k \in 1..Len(sep) : s[i + k - 1] = sep[k]}

\* str.split(sep): the pieces between the non-overlapping occurrences of sep,
\* found left to right; k occurrences give k + 1 pieces, "" gives [""].
RECURSIVE split(_, _)
split(s, sep) ==
    LET occ == Occurrences(s, sep, 1) IN
    IF occ = {} THEN <<s>>
    ELSE LET i == Min(occ) IN
         <<SubSeq(s, 1, i - 1)>> \o split(SubSeq(s, i + Len(sep), Len(s)), sep)

\* The number of whitespace characters s[from], s[from + step], ... before the
\* first character that is none.
RECURSIVE WhiteRun(_, _, _)
WhiteRun(s, from, step) ==
    IF from \in 1..Len(s) /\ s[from] \in {SP, NL}
    THEN 1 + WhiteRun(s, from + step, step)
    ELSE 0

\* str.strip(): leading and trailing whitespace removed.
strip(s) ==
    LET leading == WhiteRun(s, 1, 1) IN
    IF leading = Len(s) THEN Empty
    ELSE SubSeq(s, leading + 1, Len(s) - WhiteRun(s, Len(s), -1))

\* ---------------------------------------------------------------- splitter

\* chunks.append(current_chunk); current_chunk = unit + sep   (the flush), or
\* current_chunk += unit + sep
Accumulate(st, unit, sep, max_length) ==
    IF Len(st.current_chunk) + Len(unit) + Len(sep) > max_length
    THEN [chunks |-> Append(st.chunks, st.current_chunk),
          current_chunk |-> unit \o sep]
    ELSE [chunks |-> st.chunks,
          current_chunk |-> st.current_chunk \o unit \o sep]

\* for word in words: ...
RECURSIVE WordLoop(_, _, _)
WordLoop(st, words, max_length) ==
    IF words = <<>> THEN st
    ELSE WordLoop(Accumulate(st, Head(words), <<SP>>, max_length),
                  Tail(words), max_length)

\* for line in lines: an overlong line goes word by word.
RECURSIVE LineLoop(_, _, _)
LineLoop(st, lines, max_length) ==
    IF lines = <<>> THEN st
    ELSE LET line == Head(lines)
             nxt == IF Len(line) > max_length
                    THEN WordLoop(st, split(line, <<SP>>), max_length)
                    ELSE Accumulate(st, line, <<NL>>, max_length)
         IN LineLoop(nxt, Tail(lines), max_length)

\* if current_chunk: chunks.append(current_chunk); current_chunk = ""
FlushIfAny(st) ==
    IF st.current_chunk # Empty
    THEN [chunks |-> Append(st.chunks, st.current_chunk), current_chunk |-> Empty]
    ELSE st

\* for paragraph in paragraphs: an overlong paragraph goes line by line.
RECURSIVE ParagraphLoop(_, _, _)
ParagraphLoop(st, paragraphs, max_length) ==
    IF paragraphs = <<>> THEN st
    ELSE LET paragraph == Head(paragraphs)
             nxt == IF Len(paragraph) > max_length
                    THEN LineLoop(FlushIfAny(st), split(paragraph, <<NL>>), max_length)
                    ELSE Accumulate(st, paragraph, <<NL, NL>>, max_length)
         IN ParagraphLoop(nxt, Tail(paragraphs), max_length)

\* split_long_message with "<" for "<=" in its first test.
split_long_message_StrictLess(message, max_length) ==
    IF Len(message) < max_length THEN <<message>>
    ELSE FlushIfAny(ParagraphLoop([chunks |-> <<>>, current_chunk |-> Empty],
                                  split(message, <<NL, NL>>), max_length)).chunks

split_long_message(message, max_length) ==
    IF Len(message) <= max_length THEN <<message>>
    ELSE FlushIfAny(ParagraphLoop([chunks |-> <<>>, current_chunk |-> Empty],
                                  split(message, <<NL, NL>>), max_length)).chunks

\* ---------------------------------------------------------------- delivery

\* Slack allows 3000 characters in a text block; 2900 leaves a safety margin.
SLACK_TEXT_LIMIT == 2900

Variants == {"util", "utils", "main"}

\* The background tasks that can each run one delivery; Spec starts the first.
Deliveries == {1, 2}

\* Python's None: no parent message, no "ts" in a response, a key not returned.
None == "None"

\* The thread a caller may ask to continue.
ExistingThread == "T0"

\* The destination channel each delivery is given: the deliveries of one
\* caller go to the same channel (slack_channel of the request,
\* DEFAULT_SLACK_CHANNEL when it has none).
ChannelOf(d) == "C1"

\* The exceptions: none, the completion call's, the post recorded at posts[at].
NoError == [op |-> "none", at |-> 0]

CompletionError == [op |-> "complete", at |-> 0]

PostError(at) == [op |-> "post", at |-> at]

\* What one post call can do. util.py and main.py post through send_to_slack
\* (main.py), which raises on a failure; utils.py posts through
\* send_block_to_slack, which prints a response that is not ok and returns its
\* body, and lets an exception of requests.post or response.json() through.
Outcomes(v) == IF v = "utils" THEN {"ok", "not_ok", "raise"} ELSE {"ok", "raise"}

\* The words of an answer are runs of these lengths.
UnitLens == {1, SLACK_TEXT_LIMIT - 1, SLACK_TEXT_LIMIT, SLACK_TEXT_LIMIT + 1}

Seps == {<<SP>>, <<NL>>, <<NL, NL>>}

\* k times sep and a word of n characters.
RECURSIVE Words(_, _, _)
Words(k, sep, n) == IF k = 0 THEN Empty ELSE sep \o Rep("a", n) \o Words(k - 1, sep, n)

\* The answers of exactly k words: a first word, then k - 1 words of one
\* length, each after the same separator.
AnswersOf(k) ==
    IF k = 0 THEN {Empty}
    ELSE IF k = 1 THEN {Rep("a", n) : n \in UnitLens}
    ELSE {Rep("a", m) \o Words(k - 1, sep, n) : m \in UnitLens, sep \in Seps, n \in UnitLens}

\* The texts the completion call may return.
Answers == UNION {AnswersOf(k) : k \in 0..MaxUnits}

\* InitialMessage with "<" for "<=" in the test of the answer's length.
InitialMessage_StrictLess(v, response) ==
    IF v = "main" \/ Len(response) < SLACK_TEXT_LIMIT
    THEN [kind |-> "answer", body |-> response, number |-> 0, total |-> 0,
          footer |-> TRUE, cause |-> NoError]
    ELSE [kind |-> "placeholder", body |-> Empty, number |-> 0, total |-> 0,
          footer |-> FALSE, cause |-> NoError]

\* The first message of a delivery. util.py and utils.py put the whole answer
\* and the model/timestamp footer in it when the answer fits, and a placeholder
\* otherwise; main.py always puts the whole answer and the footer in it.
InitialMessage(v, response) ==
    IF v = "main" \/ Len(response) <= SLACK_TEXT_LIMIT
    THEN [kind |-> "answer", body |-> response, number |-> 0, total |-> 0,
          footer |-> TRUE, cause |-> NoError]
    ELSE [kind |-> "placeholder", body |-> Empty, number |-> 0, total |-> 0,
          footer |-> FALSE, cause |-> NoError]

\* ChunkMessage with the footer test off by one: i == len(chunks).
ChunkMessage_FooterOffByOne(v, cs, i) ==
    [kind |-> "chunk",
     body |-> IF v = "utils" THEN strip(cs[i + 1]) ELSE cs[i + 1],
     number |-> i + 1, total |-> Len(cs),
     footer |-> (i = Len(cs)), cause |-> NoError]

\* The message of chunks[i] (i from 0, as enumerate gives it): header i+1/n, the
\* chunk (stripped in utils.py), the footer on the last chunk only.
ChunkMessage(v, cs, i) ==
    [kind |-> "chunk",
     body |-> IF v = "utils" THEN strip(cs[i + 1]) ELSE cs[i + 1],
     number |-> i + 1, total |-> Len(cs),
     footer |-> (i = Len(cs) - 1), cause |-> NoError]

\* The notification of the except block: plain text naming the exception.
ErrorMessage(e) ==
    [kind |-> "error", body |-> Empty, number |-> 0, total |-> 0,
     footer |-> FALSE, cause |-> e]

\* What a delivery that has posted everything returns. A key a variant does
\* not return is None.
\*   util.py:  slack_message_ts = slack_response["ts"],
\*             thread_ts = thread_ts or slack_response["ts"]
\*   utils.py: thread_ts = slack_response.get("ts")
\*   main.py:  slack_message_ts = slack_response["ts"],
\*             thread_ts = slack_response.get("thread_ts", slack_response["ts"]);
\*             chat.postMessage answers with no top-level thread_ts.
ReturnValue(v, caller_thread_ts, ts) ==
    [status |-> "returned",
     slack_message_ts |-> IF v = "utils" THEN None ELSE ts,
     thread_ts |-> IF v = "util" /\ caller_thread_ts # None
                   THEN caller_thread_ts ELSE ts,
     cause |-> NoError]

\* raise HTTPException(500, detail = str(e)), or e itself where nothing catches it.
Raised(e) ==
    [status |-> "raised", slack_message_ts |-> None, thread_ts |-> None, cause |-> e]

NoResult ==
    [status |-> "none", slack_message_ts |-> None, thread_ts |-> None,
     cause |-> NoError]

\* The ts the messaging service gives the n-th post it receives.
TsOf(n) == ToString(n)

\* ------------------------------------------- session store (app/utils.py)

\* Bounds of the session specification: operations called in one behaviour,
\* the longest message list given to import_history_from_messages, and the
\* calls of the outside world (storage, completion, messaging) that fail in
\* one behaviour.
MaxCalls == 3
MaxMessages == 2
MaxFaults == 1

\* The modules that construct a SessionManager of their own when imported:
\* app/router.py and app/web_router.py.
Instances == {"router", "web_router"}

\* get_current_session keeps the last K history entries (history[-3:]).
K == 3

\* Inputs of the operations.
Contexts == {"ctx1", "ctx2"}
Environments == {"env1"}
TaskTexts == {"task1"}
SlackMessage(n) == "message " \o ToString(n)
MessageLists == {[i \in 1..k |-> SlackMessage(i)] : k \in 0..MaxMessages}

\* The text of the n-th request and the answer the completion call gives it.
Question(n) == "question " \o ToString(n)
Answer(n) == "answer " \o ToString(n)

\* The assistant texts the code writes by itself: the placeholder of send_mcp
\* (""), the one of import_history_from_messages (Korean for "no answer yet")
\* and what ask_claude returns when the completion call raised (Korean for
\* "Claude API call failed").
Placeholder == ""
NoAnswerYet == "no answer yet"
CompletionFailedText == "Claude API call failed"

Entry(user_message, assistant_response) ==
    [user |-> user_message, assistant |-> assistant_response]

\* SessionManager.__init__ before load_session.
EmptySession == [context |-> "", environment |-> "", tasks |-> <<>>, history |-> <<>>]

\* The session file: absent, holding the JSON document of a session, or
\* holding something json.load cannot parse (a truncated document).
NoFile == [state |-> "absent", data |-> EmptySession]
JsonFile(data) == [state |-> "json", data |-> data]
BrokenFile == [state |-> "broken", data |-> EmptySession]

\* How load_session ends: it returns, or json.load raises.
LoadRaises(file) == file.state = "broken"

\* The fields after load_session returned.
load_session(self, file) ==
    IF file.state = "json" THEN file.data ELSE self

\* How save_session ends: the document is written; mkdir or open raises and
\* leaves the file as it was; json.dump raises after open truncated the file.
SaveOutcomes == {"written", "open_raises", "dump_raises"}

save_session_WithoutHistory(self, file, outcome) ==
    CASE outcome = "written" -> JsonFile([self EXCEPT !.history = <<>>])
      [] outcome = "open_raises" -> file
      [] outcome = "dump_raises" -> BrokenFile

save_session(self, file, outcome) ==
    CASE outcome = "written" -> JsonFile(self)
      [] outcome = "open_raises" -> file
      [] outcome = "dump_raises" -> BrokenFile

SaveRaises(outcome) == outcome # "written"

\* The number of failing calls among the outcomes an action draws.
Failed(outcomes) == Cardinality({i \in DOMAIN outcomes : outcomes[i] \notin {"written", "ok"}})

\* The arguments start_session was last called with.
NotStarted == [called |-> FALSE, context |-> "", environment |-> ""]
Started(context, environment) ==
    [called |-> TRUE, context |-> context, environment |-> environment]

\* The in-memory part of the operations; each is followed by save_session.
start_session_KeepsHistory(self, context, environment) ==
    [self EXCEPT !.context = context, !.environment = environment, !.tasks = <<>>]

start_session(self, context, environment) ==
    [context |-> context, environment |-> environment, tasks |-> <<>>, history |-> <<>>]

add_task(self, task) == [self EXCEPT !.tasks = Append(@, task)]

append_history(self, user_message, assistant_response) ==
    [self EXCEPT !.history = Append(@, Entry(user_message, assistant_response))]

add_full_history(self, user_message, assistant_response) ==
    [self EXCEPT !.history = Append(@, Entry(user_message, assistant_response))]

Reversed(s) == [i \in 1..Len(s) |-> s[Len(s) + 1 - i]]

import_history_from_messages_Prepends(self, messages) ==
    [self EXCEPT !.history =
        [i \in 1..Len(messages) |-> Entry(Reversed(messages)[i], NoAnswerYet)] \o @]

import_history_from_messages(self, messages) ==
    [self EXCEPT !.history =
        @ \o [i \in 1..Len(messages) |-> Entry(Reversed(messages)[i], NoAnswerYet)]]

\* s[-n:] of Python.
LastN(s, n) == SubSeq(s, IF Len(s) > n THEN Len(s) - n + 1 ELSE 1, Len(s))

get_current_session_FirstEntries(self) ==
    [self EXCEPT !.history = SubSeq(@, 1, IF Len(@) > K THEN K ELSE Len(@))]

get_current_session(self) == [self EXCEPT !.history = LastN(@, K)]

\* ask_claude: the text of the completion, or the failure text when the
\* call raised (the exception is caught and printed).
CompletionOutcomes == {"ok", "raises"}
ask_claude(n, outcome) == IF outcome = "ok" THEN Answer(n) ELSE CompletionFailedText

\* A session saved by an earlier run of the program.
PriorSession ==
    [context |-> "ctx1", environment |-> "env1", tasks |-> <<"task1">>,
     history |-> <<Entry(Question(0), Answer(0))>>]

\* The last entry point called and the last save_session performed.
NoView == EmptySession
NoCall == [op |-> "none", instance |-> "router", outcome |-> "returned", view |-> NoView]
NoSave == [op |-> "none", instance |-> "router", outcome |-> "none"]
Call(op, instance, raised, view) ==
    [op |-> op, instance |-> instance,
     outcome |-> IF raised THEN "raised" ELSE "returned", view |-> view]
Save(op, instance, outcome) == [op |-> op, instance |-> instance, outcome |-> outcome]

\* ------------------------------------------------- HTTP layer (app/main.py)

\* The client addresses log_requests lets through, and the ones tried.
Loopback == {"127.0.0.1", "localhost", "::1"}
ClientHosts == Loopback \cup {"192.168.0.10", "203.0.113.7"}

log_requests_allows_LocalNetwork(client_host) ==
    client_host \in Loopback \cup {"192.168.0.10"}

log_requests_allows(client_host) == client_host \in Loopback

\* The X-API-Key header: LOCAL_API_KEY, another key, or no header.
ApiKeys == {"valid", "invalid", "missing"}

\* The routes of app and the ones declared with Depends(validate_api_key).
Routes == {"/", "/messages", "/api/slack/channels", "/api/slack/messages/{channel_id}",
           "/slack_message", "/health", "/ask_with_slack", "/api/slack/search_channels"}
Protected == {"/messages", "/api/slack/channels", "/api/slack/messages/{channel_id}",
              "/slack_message", "/health"}

\* A request: who sends it, its key, its route, the destination channel of
\* its body (None when left out) and whether its message list is empty.
Requests == [client_host : ClientHosts, api_key : ApiKeys, route : Routes,
             slack_channel : {None, "C1"}, messages : {"empty", "some"}]

\* validate_api_key, behind APIKeyHeader: the status it rejects with, or 0.
validate_api_key(api_key) ==
    CASE api_key = "valid" -> 0
      [] api_key = "invalid" -> 401
      [] api_key = "missing" -> 403

\* What a handler answers: the status and the background tasks it added.
Response(status, tasks) == [status_code |-> status, tasks |-> tasks]

process_messages_SkipsEmptyCheck(req, default_channel) ==
    LET slack_channel == IF req.slack_channel # None THEN req.slack_channel
                         ELSE default_channel
    IN  IF slack_channel = None THEN Response(400, <<>>)
        ELSE Response(200, <<"process_messages_and_send_to_slack">>)

process_messages(req, default_channel) ==
    LET slack_channel == IF req.slack_channel # None THEN req.slack_channel
                         ELSE default_channel
    IN  IF slack_channel = None THEN Response(400, <<>>)
        ELSE IF req.messages = "empty" THEN Response(400, <<>>)
        ELSE Response(200, <<"process_messages_and_send_to_slack">>)

\* fetched: what get_slack_messages returned, "none" for the empty list.
ask_claude_with_slack_context(req, fetched) ==
    IF fetched = "none" THEN Response(400, <<>>)
    ELSE Response(200, <<"process_claude_and_send_to_slack">>)

\* ----------------------------------------------------------------- state

VARIABLES
    message,      \* splitter harness: the text given to split_long_message
    max_length,   \* splitter harness: the limit given to it
    returned,     \* splitter harness: "no" before the call, "yes" after it
    chunks_out,   \* splitter harness: the list it returned
    posts,        \* messaging service: every post call received, in order
    variant,      \* per delivery: which process_claude_and_send_to_slack runs
    thread_ts,    \* per delivery: the caller's parent message id, or None
    pc,           \* per delivery: where the call stands
    claude_response,        \* per delivery: the answer of the completion call
    slack_response,         \* per delivery: "ts" of the first post's response
    thread_ts_for_replies,  \* per delivery: the parent given to the chunks
    chunks,       \* per delivery: split_long_message(claude_response)
    idx,          \* per delivery: the loop index over chunks
    caught,       \* per delivery: the exception the except block holds
    result,       \* per delivery: what the call returned or raised
    session_file,     \* session store: the file SESSION_FILE names
    session_manager,  \* session store: the fields of each module's SessionManager
    imported,     \* session store: whether each module constructed its manager
    calls,        \* session store: the number of calls made so far
    last_call,    \* session store: the last store operation called
    last_save,    \* session store: the last save_session performed
    asks,         \* session routes: the ask requests received, in order
    sent,         \* session routes: the texts posted for them, in order
    recorded,     \* session routes: the turns they recorded since the last start_session
    faults,       \* session routes: the outside calls that failed so far
    started,      \* session routes: the arguments of the last start_session
    request,      \* HTTP layer: the request being served
    DEFAULT_SLACK_CHANNEL,  \* HTTP layer: the configured channel, or None
    stage,        \* HTTP layer: how far the request has come
    status_code,  \* HTTP layer: the status of the response, 0 before it
    handled_by,   \* HTTP layer: the route handler that ran, or None
    slack_messages,    \* HTTP layer: what get_slack_messages returned
    background_tasks,  \* HTTP layer: the tasks the handler scheduled
    completion_calls,  \* HTTP layer: the completion calls made for the request
    post_calls,   \* HTTP layer: the posts made for the request
    channel_read  \* HTTP layer: whether channel data was read for the request

splitVars == <<message, max_length, returned, chunks_out>>

deliveryVars == <<posts, variant, thread_ts, pc, claude_response, slack_response,
                  thread_ts_for_replies, chunks, idx, caught, result>>

sessionVars == <<session_file, session_manager, imported, calls, last_call, last_save,
                 asks, sent, recorded, faults, started>>

httpVars == <<request, DEFAULT_SLACK_CHANNEL, stage, status_code, handled_by,
              slack_messages, background_tasks, completion_calls, post_calls,
              channel_read>>

vars == <<splitVars, deliveryVars, sessionVars, httpVars>>

\* All texts of at most n characters.
Texts(n) == UNION {[1..k -> Chars] : k \in 0..n}

\* The delivery variables while the splitter is exercised on its own.
NoDelivery ==
    /\ posts = <<>>
    /\ variant = [d \in Deliveries |-> "util"]
    /\ thread_ts = [d \in Deliveries |-> None]
    /\ pc = [d \in Deliveries |-> "idle"]
    /\ claude_response = [d \in Deliveries |-> Empty]
    /\ slack_response = [d \in Deliveries |-> None]
    /\ thread_ts_for_replies = [d \in Deliveries |-> None]
    /\ chunks = [d \in Deliveries |-> <<>>]
    /\ idx = [d \in Deliveries |-> 0]
    /\ caught = [d \in Deliveries |-> NoError]
    /\ result = [d \in Deliveries |-> NoResult]

\* The session store while another part of the program is exercised.
NoSession ==
    /\ session_file = NoFile
    /\ session_manager = [i \in Instances |-> EmptySession]
    /\ imported = [i \in Instances |-> "no"]
    /\ calls = 0
    /\ last_call = NoCall
    /\ last_save = NoSave
    /\ asks = <<>>
    /\ sent = <<>>
    /\ recorded = <<>>
    /\ faults = 0
    /\ started = NotStarted

\* The HTTP layer while another part of the program is exercised.
NoHttp ==
    /\ request = [client_host |-> "127.0.0.1", api_key |-> "valid", route |-> "/health",
                  slack_channel |-> None, messages |-> "empty"]
    /\ DEFAULT_SLACK_CHANNEL = None
    /\ stage = "idle"
    /\ status_code = 0
    /\ handled_by = None
    /\ slack_messages = None
    /\ background_tasks = <<>>
    /\ completion_calls = 0
    /\ post_calls = 0
    /\ channel_read = FALSE

InitSplit ==
    /\ message \in Texts(MaxLen)
    /\ max_length \in 1..MaxLimit
    /\ returned = "no"
    /\ chunks_out = <<>>
    /\ NoDelivery
    /\ NoSession
    /\ NoHttp

CallSplit ==
    /\ returned = "no"
    /\ chunks_out' = split_long_message(message, max_length)
    /\ returned' = "yes"
    /\ UNCHANGED <<message, max_length, deliveryVars, sessionVars, httpVars>>

NextSplit == CallSplit

SpecSplit == InitSplit /\ [][NextSplit]_vars

\* ------------------------------------------------------ one delivery (Spec)

\* The splitter harness while deliveries run.
NoSplit ==
    /\ message = Empty
    /\ max_length = SLACK_TEXT_LIMIT
    /\ returned = "no"
    /\ chunks_out = <<>>

\* Delivery 1 is about to run, in any variant, with or without a parent.
Init ==
    /\ NoSplit
    /\ posts = <<>>
    /\ variant \in [Deliveries -> Variants]
    /\ \A d \in Deliveries : d # 1 => variant[d] = "util"
    /\ thread_ts \in [Deliveries -> {None, ExistingThread}]
    /\ \A d \in Deliveries : d # 1 => thread_ts[d] = None
    /\ pc = [d \in Deliveries |-> IF d = 1 THEN "start" ELSE "idle"]
    /\ claude_response = [d \in Deliveries |-> Empty]
    /\ slack_response = [d \in Deliveries |-> None]
    /\ thread_ts_for_replies = [d \in Deliveries |-> None]
    /\ chunks = [d \in Deliveries |-> <<>>]
    /\ idx = [d \in Deliveries |-> 0]
    /\ caught = [d \in Deliveries |-> NoError]
    /\ result = [d \in Deliveries |-> NoResult]
    /\ NoSession
    /\ NoHttp

\* The record the messaging service keeps of one post call.
PostRecord(d, msg, parent, outcome) ==
    [delivery |-> d, channel |-> ChannelOf(d), thread_ts |-> parent,
     kind |-> msg.kind, body |-> msg.body, number |-> msg.number,
     total |-> msg.total, footer |-> msg.footer, cause |-> msg.cause,
     ok |-> (outcome = "ok"),
     ts |-> IF outcome = "ok" THEN TsOf(Len(posts) + 1) ELSE None]

\* response.get("ts") of a post call that did not raise.
TsReturned(outcome) == IF outcome = "ok" THEN TsOf(Len(posts) + 1) ELSE None

\* claude_client.messages.create(...) answers with one of the given texts.
CompleteFrom(d, answers) ==
    /\ pc[d] = "start"
    /\ \E a \in answers : claude_response' = [claude_response EXCEPT ![d] = a]
    /\ pc' = [pc EXCEPT ![d] = "send_initial"]
    /\ UNCHANGED <<splitVars, sessionVars, httpVars, posts, variant, thread_ts, slack_response,
                   thread_ts_for_replies, chunks, idx, caught, result>>

\* claude_client.messages.create(...) answers.
Complete(d) == CompleteFrom(d, Answers)

\* claude_client.messages.create(...) raises: util.py and main.py catch it,
\* utils.py lets it through.
CompleteFails(d) ==
    /\ pc[d] = "start"
    /\ IF variant[d] = "utils"
       THEN /\ result' = [result EXCEPT ![d] = Raised(CompletionError)]
            /\ pc' = [pc EXCEPT ![d] = "done"]
            /\ UNCHANGED caught
       ELSE /\ caught' = [caught EXCEPT ![d] = CompletionError]
            /\ pc' = [pc EXCEPT ![d] = "except"]
            /\ UNCHANGED result
    /\ UNCHANGED <<splitVars, sessionVars, httpVars, posts, variant, thread_ts, claude_response,
                   slack_response, thread_ts_for_replies, chunks, idx>>

\* A post call of the try body raised: the except block of util.py and main.py
\* takes it, utils.py has none and the exception leaves the call.
PostRaised(d) ==
    IF variant[d] = "utils"
    THEN /\ result' = [result EXCEPT ![d] = Raised(PostError(Len(posts) + 1))]
         /\ pc' = [pc EXCEPT ![d] = "done"]
         /\ UNCHANGED caught
    ELSE /\ caught' = [caught EXCEPT ![d] = PostError(Len(posts) + 1)]
         /\ pc' = [pc EXCEPT ![d] = "except"]
         /\ UNCHANGED result

\* The first message is posted with the caller's thread_ts as parent. When it
\* carried the answer the call returns; otherwise the answer is split and the
\* loop over the chunks starts.
SendInitial(d) ==
    /\ pc[d] = "send_initial"
    /\ LET msg == InitialMessage(variant[d], claude_response[d]) IN
       \E outcome \in Outcomes(variant[d]) :
          /\ posts' = Append(posts, PostRecord(d, msg, thread_ts[d], outcome))
          /\ IF outcome = "raise"
             THEN /\ PostRaised(d)
                  /\ UNCHANGED <<slack_response, thread_ts_for_replies, chunks, idx>>
             ELSE /\ slack_response' = [slack_response EXCEPT ![d] = TsReturned(outcome)]
                  /\ thread_ts_for_replies' =
                        [thread_ts_for_replies EXCEPT ![d] = TsReturned(outcome)]
                  /\ UNCHANGED caught
                  /\ IF msg.kind = "answer"
                     THEN /\ result' = [result EXCEPT ![d] =
                                ReturnValue(variant[d], thread_ts[d], TsReturned(outcome))]
                          /\ pc' = [pc EXCEPT ![d] = "done"]
                          /\ UNCHANGED <<chunks, idx>>
                     ELSE LET cs == split_long_message(claude_response[d], SLACK_TEXT_LIMIT) IN
                          /\ chunks' = [chunks EXCEPT ![d] = cs]
                          /\ idx' = [idx EXCEPT ![d] = 0]
                          /\ IF cs = <<>>
                             THEN /\ result' = [result EXCEPT ![d] =
                                        ReturnValue(variant[d], thread_ts[d], TsReturned(outcome))]
                                  /\ pc' = [pc EXCEPT ![d] = "done"]
                             ELSE /\ pc' = [pc EXCEPT ![d] = "send_chunk"]
                                  /\ UNCHANGED result
    /\ UNCHANGED <<splitVars, sessionVars, httpVars, variant, thread_ts, claude_response>>

\* SendChunk with thread_ts_for_replies kept in one place for all the calls:
\* the parent is the ts returned for the latest first message of any delivery.
SendChunk_SharedThread(d) ==
    /\ pc[d] = "send_chunk"
    /\ LET msg == ChunkMessage(variant[d], chunks[d], idx[d])
           firsts == SelectSeq(posts, LAMBDA p : p.kind \in {"answer", "placeholder"})
       IN
       \E outcome \in Outcomes(variant[d]) :
          /\ posts' = Append(posts, PostRecord(d, msg, firsts[Len(firsts)].ts, outcome))
          /\ IF outcome = "raise"
             THEN PostRaised(d)
             ELSE /\ pc' = [pc EXCEPT ![d] = "sleep"]
                  /\ UNCHANGED <<caught, result>>
    /\ UNCHANGED <<splitVars, sessionVars, httpVars, variant, thread_ts, claude_response, slack_response,
                   thread_ts_for_replies, chunks, idx>>

\* chunks[idx] is posted as a reply to thread_ts_for_replies; the result of
\* the call is not looked at.
SendChunk(d) ==
    /\ pc[d] = "send_chunk"
    /\ LET msg == ChunkMessage(variant[d], chunks[d], idx[d]) IN
       \E outcome \in Outcomes(variant[d]) :
          /\ posts' = Append(posts, PostRecord(d, msg, thread_ts_for_replies[d], outcome))
          /\ IF outcome = "raise"
             THEN PostRaised(d)
             ELSE /\ pc' = [pc EXCEPT ![d] = "sleep"]
                  /\ UNCHANGED <<caught, result>>
    /\ UNCHANGED <<splitVars, sessionVars, httpVars, variant, thread_ts, claude_response, slack_response,
                   thread_ts_for_replies, chunks, idx>>

\* The 0.5 s pause after a chunk is over: the loop goes to the next chunk, or
\* ends and the call returns.
Sleep(d) ==
    /\ pc[d] = "sleep"
    /\ idx' = [idx EXCEPT ![d] = idx[d] + 1]
    /\ IF idx[d] + 1 < Len(chunks[d])
       THEN /\ pc' = [pc EXCEPT ![d] = "send_chunk"]
            /\ UNCHANGED result
       ELSE /\ result' = [result EXCEPT ![d] =
                  ReturnValue(variant[d], thread_ts[d], slack_response[d])]
            /\ pc' = [pc EXCEPT ![d] = "done"]
    /\ UNCHANGED <<splitVars, sessionVars, httpVars, posts, variant, thread_ts, claude_response,
                   slack_response, thread_ts_for_replies, chunks, caught>>

\* The except block of util.py and main.py: the notification is posted with
\* the caller's thread_ts, its own failure is only logged, and HTTPException
\* (500) is raised with the caught exception in its detail.
NotifyError(d) ==
    /\ pc[d] = "except"
    /\ \E outcome \in {"ok", "raise"} :
          posts' = Append(posts, PostRecord(d, ErrorMessage(caught[d]), thread_ts[d], outcome))
    /\ result' = [result EXCEPT ![d] = Raised(caught[d])]
    /\ pc' = [pc EXCEPT ![d] = "done"]
    /\ UNCHANGED <<splitVars, sessionVars, httpVars, variant, thread_ts, claude_response, slack_response,
                   thread_ts_for_replies, chunks, idx, caught>>

Next ==
    \E d \in Deliveries :
        \/ Complete(d)
        \/ CompleteFails(d)
        \/ SendInitial(d)
        \/ SendChunk(d)
        \/ Sleep(d)
        \/ NotifyError(d)

Spec == Init /\ [][Next]_vars

\* --------------------------------- two deliveries at once (SpecConcurrent)
\* send_mcp (app/web_router.py) adds one background task per request, each
\* running process_claude_and_send_to_slack with thread_ts None. Two tasks
\* interleave at every post call and every sleep; all they share is the
\* messaging service, which gives each post its own ts.

\* The variants that post chunks.
ChunkingVariants == {"util", "utils"}

\* The answer of the two tasks: a long one, which the splitter cuts in two
\* chunks.
ConcurrentAnswers == {Rep("a", 1) \o Words(1, <<SP>>, SLACK_TEXT_LIMIT)}

\* Both tasks are about to run, to the same channel, with no parent.
InitConcurrent ==
    /\ NoSplit
    /\ posts = <<>>
    /\ variant \in [Deliveries -> ChunkingVariants]
    /\ \A d, e \in Deliveries : variant[d] = variant[e]
    /\ thread_ts = [d \in Deliveries |-> None]
    /\ pc = [d \in Deliveries |-> "start"]
    /\ claude_response = [d \in Deliveries |-> Empty]
    /\ slack_response = [d \in Deliveries |-> None]
    /\ thread_ts_for_replies = [d \in Deliveries |-> None]
    /\ chunks = [d \in Deliveries |-> <<>>]
    /\ idx = [d \in Deliveries |-> 0]
    /\ caught = [d \in Deliveries |-> NoError]
    /\ result = [d \in Deliveries |-> NoResult]
    /\ NoSession
    /\ NoHttp

CompleteConcurrent(d) == CompleteFrom(d, ConcurrentAnswers)

NextConcurrent ==
    \E d \in Deliveries :
        \/ CompleteConcurrent(d)
        \/ CompleteFails(d)
        \/ SendInitial(d)
        \/ SendChunk(d)
        \/ Sleep(d)
        \/ NotifyError(d)

SpecConcurrent == InitConcurrent /\ [][NextConcurrent]_vars

\* ------------------------------------- session store and its routes
\* (SpecSession): app/router.py and app/web_router.py on app/utils.py

InitSession ==
    /\ session_file \in {NoFile, BrokenFile, JsonFile(PriorSession)}
    /\ session_manager = [i \in Instances |-> EmptySession]
    /\ imported = [i \in Instances |-> "no"]
    /\ calls = 0
    /\ last_call = NoCall
    /\ last_save = NoSave
    /\ asks = <<>>
    /\ sent = <<>>
    /\ recorded = <<>>
    /\ faults = 0
    /\ started = NotStarted
    /\ NoSplit
    /\ NoDelivery
    /\ NoHttp

\* Every module has constructed its SessionManager: requests are served.
Serving == \A i \in Instances : imported[i] = "yes"

\* Importing module i runs session_manager = SessionManager().
Import(i) ==
    /\ imported[i] = "no"
    /\ \A j \in Instances : imported[j] # "failed"
    /\ IF LoadRaises(session_file)
          THEN /\ imported' = [imported EXCEPT ![i] = "failed"]
               /\ UNCHANGED session_manager
          ELSE /\ imported' = [imported EXCEPT ![i] = "yes"]
               /\ session_manager' =
                      [session_manager EXCEPT ![i] = load_session(EmptySession, session_file)]
    /\ last_call' = Call("load_session", i, LoadRaises(session_file), NoView)
    /\ UNCHANGED <<session_file, calls, last_save, asks, sent, recorded>>
    /\ UNCHANGED faults
    /\ UNCHANGED started
    /\ UNCHANGED <<splitVars, deliveryVars, httpVars>>

\* POST /session/start of app/router.py.
RouteSessionStart(context, environment, outcome) ==
    LET self == start_session(session_manager["router"], context, environment) IN
    /\ Serving
    /\ calls < MaxCalls
    /\ calls' = calls + 1
    /\ session_manager' = [session_manager EXCEPT !["router"] = self]
    /\ session_file' = save_session(self, session_file, outcome)
    /\ last_save' = Save("start_session", "router", outcome)
    /\ last_call' = Call("start_session", "router", SaveRaises(outcome), NoView)
    /\ recorded' = <<>>
    /\ UNCHANGED <<imported, asks, sent>>
    /\ faults + Failed(<<outcome>>) <= MaxFaults
    /\ faults' = faults + Failed(<<outcome>>)
    /\ started' = Started(context, environment)
    /\ UNCHANGED <<splitVars, deliveryVars, httpVars>>

\* POST /task/add of app/router.py.
RouteTaskAdd(task, outcome) ==
    LET self == add_task(session_manager["router"], task) IN
    /\ Serving
    /\ calls < MaxCalls
    /\ calls' = calls + 1
    /\ session_manager' = [session_manager EXCEPT !["router"] = self]
    /\ session_file' = save_session(self, session_file, outcome)
    /\ last_save' = Save("add_task", "router", outcome)
    /\ last_call' = Call("add_task", "router", SaveRaises(outcome), NoView)
    /\ UNCHANGED <<imported, asks, sent, recorded>>
    /\ faults + Failed(<<outcome>>) <= MaxFaults
    /\ faults' = faults + Failed(<<outcome>>)
    /\ UNCHANGED started
    /\ UNCHANGED <<splitVars, deliveryVars, httpVars>>

\* A call of import_history_from_messages on the store of module i (no route
\* of the two modules calls it; it is exercised as the store's operation).
CallImportHistory(i, messages, outcome) ==
    LET self == import_history_from_messages(session_manager[i], messages) IN
    /\ Serving
    /\ calls < MaxCalls
    /\ calls' = calls + 1
    /\ session_manager' = [session_manager EXCEPT ![i] = self]
    /\ session_file' = save_session(self, session_file, outcome)
    /\ last_save' = Save("import_history_from_messages", i, outcome)
    /\ last_call' = Call("import_history_from_messages", i, SaveRaises(outcome), NoView)
    /\ UNCHANGED <<imported, asks, sent, recorded>>
    /\ faults + Failed(<<outcome>>) <= MaxFaults
    /\ faults' = faults + Failed(<<outcome>>)
    /\ UNCHANGED started
    /\ UNCHANGED <<splitVars, deliveryVars, httpVars>>

\* A call of get_current_session on the store of module i.
CallGetCurrentSession(i) ==
    /\ Serving
    /\ calls < MaxCalls
    /\ calls' = calls + 1
    /\ last_call' = Call("get_current_session", i, FALSE,
                         get_current_session(session_manager[i]))
    /\ UNCHANGED <<session_file, session_manager, imported, last_save, asks, sent, recorded>>
    /\ UNCHANGED faults
    /\ UNCHANGED started
    /\ UNCHANGED <<splitVars, deliveryVars, httpVars>>

\* One ask request: its number, its route, how the completion call ended,
\* the answer text, whether the answer was posted, how the pipeline ended
\* ("scheduled": the background task has not run yet) and the HTTP status.
Ask(n, route, completion, answer, delivered, ended, status) ==
    [n |-> n, route |-> route, completion |-> completion, answer |-> answer,
     delivered |-> delivered, stage |-> ended, status |-> status]

PostOutcomes == {"ok", "raises"}

\* send_to_slack(answer) of mcp_handler: one post of the text.
send_to_slack(n, text, post) == [ask |-> n, text |-> text, ok |-> post = "ok"]

\* POST /mcp of app/router.py.
mcp_handler(completion, post, outcome) ==
    LET n == calls + 1
        self == session_manager["router"]
        session == get_current_session(self)
        answer == ask_claude(n, completion)
        raised == post = "raises" \/ SaveRaises(outcome)
    IN
    /\ Serving
    /\ calls < MaxCalls
    /\ calls' = n
    /\ post = "raises" => outcome = "written"
    /\ sent' = Append(sent, send_to_slack(n, answer, post))
    /\ IF post = "raises"
          THEN /\ last_call' = Call("get_current_session", "router", FALSE, session)
               /\ UNCHANGED <<session_manager, session_file, last_save, recorded>>
          ELSE /\ session_manager' =
                      [session_manager EXCEPT
                          !["router"] = append_history(self, Question(n), answer)]
               /\ session_file' =
                      save_session(session_manager'["router"], session_file, outcome)
               /\ last_save' = Save("append_history", "router", outcome)
               /\ last_call' = Call("append_history", "router", SaveRaises(outcome), NoView)
               /\ recorded' = IF SaveRaises(outcome) THEN recorded
                              ELSE Append(recorded, Entry(Question(n), answer))
    /\ asks' = Append(asks, Ask(n, "/mcp", completion, answer, post = "ok",
                                IF raised THEN "raised" ELSE "returned",
                                IF raised THEN 500 ELSE 200))
    /\ UNCHANGED imported
    /\ faults + Failed(<<completion, post, outcome>>) <= MaxFaults
    /\ faults' = faults + Failed(<<completion, post, outcome>>)
    /\ UNCHANGED started
    /\ UNCHANGED <<splitVars, deliveryVars, httpVars>>

FetchOutcomes == {"ok", "raises"}

\* POST /send of app/web_router.py.
send_mcp(fetch, outcome) ==
    LET n == calls + 1
        self == add_full_history(session_manager["web_router"], Question(n), Placeholder)
        session == get_current_session(self)
        raised == fetch = "raises" \/ SaveRaises(outcome)
    IN
    /\ Serving
    /\ calls < MaxCalls
    /\ calls' = n
    /\ fetch = "raises" => outcome = "written"
    /\ IF fetch = "raises"
          THEN UNCHANGED <<session_manager, session_file, last_save, last_call, recorded>>
          ELSE /\ session_manager' = [session_manager EXCEPT !["web_router"] = self]
               /\ session_file' = save_session(self, session_file, outcome)
               /\ last_save' = Save("add_full_history", "web_router", outcome)
               /\ last_call' =
                      IF SaveRaises(outcome)
                         THEN Call("add_full_history", "web_router", TRUE, NoView)
                         ELSE Call("get_current_session", "web_router", FALSE, session)
               /\ recorded' = IF SaveRaises(outcome) THEN recorded
                              ELSE Append(recorded, Entry(Question(n), Placeholder))
    /\ asks' = Append(asks, Ask(n, "/send", "pending", Placeholder, FALSE,
                                IF raised THEN "raised" ELSE "scheduled",
                                IF raised THEN 500 ELSE 200))
    /\ UNCHANGED <<imported, sent>>
    /\ faults + Failed(<<fetch, outcome>>) <= MaxFaults
    /\ faults' = faults + Failed(<<fetch, outcome>>)
    /\ UNCHANGED started
    /\ UNCHANGED <<splitVars, deliveryVars, httpVars>>

\* The background task send_mcp scheduled: process_claude_and_send_to_slack
\* of app/utils.py, which makes the completion call and posts the answer.
\* A completion call that raises ends the task; a post that fails does not.
BackgroundTask(k, completion, post) ==
    /\ k \in 1..Len(asks)
    /\ asks[k].stage = "scheduled"
    /\ completion = "raises" => post = "ok"
    /\ IF completion = "raises"
          THEN /\ asks' = [asks EXCEPT ![k].completion = "raises", ![k].stage = "raised"]
               /\ UNCHANGED sent
          ELSE /\ asks' = [asks EXCEPT ![k].completion = "ok",
                                       ![k].answer = Answer(asks[k].n),
                                       ![k].delivered = (post = "ok"),
                                       ![k].stage = "returned"]
               /\ sent' = Append(sent, [ask |-> asks[k].n, text |-> Answer(asks[k].n),
                                        ok |-> post = "ok"])
    /\ UNCHANGED <<session_file, session_manager, imported, calls, last_call, last_save,
                   recorded>>
    /\ faults + Failed(<<completion, post>>) <= MaxFaults
    /\ faults' = faults + Failed(<<completion, post>>)
    /\ UNCHANGED started
    /\ UNCHANGED <<splitVars, deliveryVars, httpVars>>

NextSession ==
    \/ \E i \in Instances : Import(i)
    \/ \E context \in Contexts, environment \in Environments, outcome \in SaveOutcomes :
           RouteSessionStart(context, environment, outcome)
    \/ \E task \in TaskTexts, outcome \in SaveOutcomes : RouteTaskAdd(task, outcome)
    \/ \E i \in Instances, messages \in MessageLists, outcome \in SaveOutcomes :
           CallImportHistory(i, messages, outcome)
    \/ \E i \in Instances : CallGetCurrentSession(i)
    \/ \E completion \in CompletionOutcomes, post \in PostOutcomes, outcome \in SaveOutcomes :
           mcp_handler(completion, post, outcome)
    \/ \E fetch \in FetchOutcomes, outcome \in SaveOutcomes : send_mcp(fetch, outcome)
    \/ \E k \in 1..MaxCalls, completion \in CompletionOutcomes, post \in PostOutcomes :
           BackgroundTask(k, completion, post)

SpecSession == InitSession /\ [][NextSession]_vars

\* ------------------------------------------ one HTTP request (SpecHttp)

InitHttp ==
    /\ request \in Requests
    /\ DEFAULT_SLACK_CHANNEL \in {None, "C0"}
    /\ stage = "received"
    /\ status_code = 0
    /\ handled_by = None
    /\ slack_messages = None
    /\ background_tasks = <<>>
    /\ completion_calls = 0
    /\ post_calls = 0
    /\ channel_read = FALSE
    /\ NoSplit
    /\ NoDelivery
    /\ NoSession

\* The middleware: a client that is not local is answered 403 here.
log_requests ==
    /\ stage = "received"
    /\ IF log_requests_allows(request.client_host)
          THEN /\ stage' = "routed"
               /\ UNCHANGED status_code
          ELSE /\ stage' = "responded"
               /\ status_code' = 403
    /\ UNCHANGED <<request, DEFAULT_SLACK_CHANNEL, handled_by, slack_messages,
                   background_tasks, completion_calls, post_calls, channel_read>>
    /\ UNCHANGED <<splitVars, deliveryVars, sessionVars>>

\* The dependency of the protected routes.
CheckApiKey ==
    /\ stage = "routed"
    /\ request.route \in Protected
    /\ IF validate_api_key(request.api_key) = 0
          THEN /\ stage' = "authorized"
               /\ UNCHANGED status_code
          ELSE /\ stage' = "responded"
               /\ status_code' = validate_api_key(request.api_key)
    /\ UNCHANGED <<request, DEFAULT_SLACK_CHANNEL, handled_by, slack_messages,
                   background_tasks, completion_calls, post_calls, channel_read>>
    /\ UNCHANGED <<splitVars, deliveryVars, sessionVars>>

\* The handler of a route is called.
Dispatched(route) ==
    /\ request.route = route
    /\ \/ stage = "authorized"
       \/ stage = "routed" /\ route \notin Protected

\* The handler answers.
Respond(handler, response) ==
    /\ stage' = "responded"
    /\ handled_by' = handler
    /\ status_code' = response.status_code
    /\ background_tasks' = response.tasks
    /\ UNCHANGED <<request, DEFAULT_SLACK_CHANNEL, completion_calls>>
    /\ UNCHANGED <<splitVars, deliveryVars, sessionVars>>

\* POST /messages.
HandleMessages ==
    /\ Dispatched("/messages")
    /\ Respond("process_messages", process_messages(request, DEFAULT_SLACK_CHANNEL))
    /\ UNCHANGED <<slack_messages, post_calls, channel_read>>

\* POST /ask_with_slack: the channel is read, then the request is validated.
HandleAskWithSlack(fetched) ==
    /\ Dispatched("/ask_with_slack")
    /\ slack_messages' = fetched
    /\ channel_read' = TRUE
    /\ Respond("ask_claude_with_slack_context",
               ask_claude_with_slack_context(request, fetched))
    /\ UNCHANGED post_calls

\* POST /slack_message: one post, 500 when it fails.
HandleSlackMessage(post) ==
    /\ Dispatched("/slack_message")
    /\ post_calls' = post_calls + 1
    /\ Respond("send_slack_message", Response(IF post = "ok" THEN 200 ELSE 500, <<>>))
    /\ UNCHANGED <<slack_messages, channel_read>>

\* GET /api/slack/messages/{channel_id}: the channel is read.
HandleChannelMessages(fetched) ==
    /\ Dispatched("/api/slack/messages/{channel_id}")
    /\ slack_messages' = fetched
    /\ channel_read' = TRUE
    /\ Respond("get_channel_messages", Response(200, <<>>))
    /\ UNCHANGED post_calls

\* GET /, /health, /api/slack/channels and /api/slack/search_channels: no
\* task, no post; the last two read the channel list and answer 500 when
\* that fails; the search answers a query of fewer than 2 characters with
\* no channel, without reading.
HandleOther(route, list) ==
    /\ route \in {"/", "/health", "/api/slack/channels", "/api/slack/search_channels"}
    /\ Dispatched(route)
    /\ route \in {"/", "/health"} => list = "ok"
    /\ list = "short_query" => route = "/api/slack/search_channels"
    /\ channel_read' = (route \in {"/api/slack/channels", "/api/slack/search_channels"}
                            /\ list # "short_query")
    /\ Respond(CASE route = "/" -> "get_web_ui"
                 [] route = "/health" -> "health_check"
                 [] route = "/api/slack/channels" -> "get_slack_channels"
                 [] route = "/api/slack/search_channels" -> "search_slack_channels",
               Response(IF list = "raises" THEN 500 ELSE 200, <<>>))
    /\ UNCHANGED <<slack_messages, post_calls>>

\* The scheduled background task runs after the response: one completion
\* call, then the post of the answer; a failure of either is notified by one
\* more post.
RunBackgroundTask(completion, post) ==
    /\ stage = "responded"
    /\ background_tasks # <<>>
    /\ completion = "raises" => post = "ok"
    /\ stage' = "finished"
    /\ completion_calls' = completion_calls + 1
    /\ post_calls' = post_calls + (IF completion = "ok" /\ post = "raises" THEN 2 ELSE 1)
    /\ UNCHANGED <<request, DEFAULT_SLACK_CHANNEL, status_code, handled_by, slack_messages,
                   background_tasks, channel_read>>
    /\ UNCHANGED <<splitVars, deliveryVars, sessionVars>>

NextHttp ==
    \/ log_requests
    \/ CheckApiKey
    \/ HandleMessages
    \/ \E fetched \in {"none", "some"} : HandleAskWithSlack(fetched)
    \/ \E post \in PostOutcomes : HandleSlackMessage(post)
    \/ \E fetched \in {"none", "some"} : HandleChannelMessages(fetched)
    \/ \E route \in Routes, list \in {"ok", "raises", "short_query"} :
           HandleOther(route, list)
    \/ \E completion \in CompletionOutcomes, post \in PostOutcomes :
           RunBackgroundTask(completion, post)

SpecHttp == InitHttp /\ [][NextHttp]_vars

\* ------------------------------------------------------------ the splitter

\* The chunks joined in order.
RECURSIVE Concat(_)
Concat(cs) == IF cs = <<>> THEN Empty ELSE Head(cs) \o Concat(Tail(cs))

\* t is what is left of c once some separator characters (spaces, newlines)
\* of c are removed: every other character of c is kept, in place and in order.
RECURSIVE Reproduces(_, _)
Reproduces(c, t) ==
    IF c = Empty THEN t = Empty
    ELSE \/ /\ t # Empty
            /\ Head(c) = Head(t)
            /\ Reproduces(Tail(c), Tail(t))
         \/ /\ Head(c) \in {SP, NL}
            /\ Reproduces(Tail(c), t)

\* C1: every chunk split_long_message(T, L) returns has at most L characters.
C1_ChunksWithinLimit ==
    returned = "yes" =>
        \A i \in 1..Len(chunks_out) : Len(chunks_out[i]) <= max_length

\* C7: the chunks of split_long_message(T, L), joined in order and with the
\* separators the splitter inserted removed, are T: no character of T is
\* dropped, duplicated, replaced or reordered.
C7_ChunksReproduceText ==
    returned = "yes" => Reproduces(Concat(chunks_out), message)

\* C8: a text of at most L characters, the empty text and a text of exactly L
\* characters included, comes back as the one-element list [T].
C8_ShortTextIsOneChunk ==
    (returned = "yes" /\ Len(message) <= max_length) => chunks_out = <<message>>

\* C8, its case: a non-empty text of exactly L characters has been split.
C8_Witness ==
    /\ returned = "yes"
    /\ Len(message) = max_length
    /\ NL \in {message[i] : i \in 1..Len(message)}
    /\ chunks_out = <<message>>

\* ------------------------------------------------------------ the delivery

\* The post calls of delivery d, in order.
PostsOf(d) == SelectSeq(posts, LAMBDA p : p.delivery = d)

\* The chunk posts of delivery d, in order.
ChunkPostsOf(d) == SelectSeq(posts, LAMBDA p : p.delivery = d /\ p.kind = "chunk")

\* Delivery d returned to its caller and none of its post calls failed.
Delivered(d) ==
    /\ pc[d] = "done"
    /\ result[d].status = "returned"
    /\ \A i \in 1..Len(posts) : posts[i].delivery = d => posts[i].ok

\* The positions in posts of the post calls of d's try body that failed.
FailedSends(d) ==
    {i \in 1..Len(posts) :
        posts[i].delivery = d /\ posts[i].kind # "error" /\ ~posts[i].ok}

\* C2: a delivery of an answer longer than SLACK_TEXT_LIMIT in which no send
\* fails makes 1 + len(split_long_message(answer, SLACK_TEXT_LIMIT)) post
\* calls: the placeholder first, then one per chunk, each with the ts returned
\* for the first post as parent.
C2_LongAnswerPostCalls ==
    \A d \in Deliveries :
        (Delivered(d) /\ Len(claude_response[d]) > SLACK_TEXT_LIMIT) =>
            LET ps == PostsOf(d)
                cs == split_long_message(claude_response[d], SLACK_TEXT_LIMIT)
            IN /\ Len(ps) = 1 + Len(cs)
               /\ ps[1].kind = "placeholder"
               /\ \A k \in 2..Len(ps) :
                     ps[k].kind = "chunk" /\ ps[k].thread_ts = ps[1].ts

\* C3 as claimed: a delivery of an answer of at most SLACK_TEXT_LIMIT
\* characters makes one post call, whose message holds the whole answer with
\* no chunk numbering, and returns the ts of that post as the thread root.
C3_ShortAnswerOnePostRootIsTs ==
    \A d \in Deliveries :
        (Delivered(d) /\ Len(claude_response[d]) <= SLACK_TEXT_LIMIT) =>
            LET ps == PostsOf(d) IN
            /\ Len(ps) = 1
            /\ ps[1].kind = "answer"
            /\ ps[1].body = claude_response[d]
            /\ ps[1].number = 0 /\ ps[1].total = 0
            /\ result[d].thread_ts = ps[1].ts

\* C3 as amended: a delivery of an answer of at most SLACK_TEXT_LIMIT
\* characters whose post succeeds makes one post call, whose message holds the
\* whole answer with no chunk numbering, with the caller's thread_ts as parent;
\* the thread root it returns is the ts of that post when the caller gave no
\* parent and in utils.py and main.py, and the caller's parent in util.py when
\* one was given (util.py returns the post's ts as slack_message_ts).
C3_ShortAnswerOnePost ==
    \A d \in Deliveries :
        (Delivered(d) /\ Len(claude_response[d]) <= SLACK_TEXT_LIMIT) =>
            LET ps == PostsOf(d) IN
            /\ Len(ps) = 1
            /\ ps[1].kind = "answer"
            /\ ps[1].body = claude_response[d]
            /\ ps[1].number = 0 /\ ps[1].total = 0
            /\ ps[1].thread_ts = thread_ts[d]
            /\ result[d].thread_ts =
                  IF variant[d] = "util" /\ thread_ts[d] # None
                  THEN thread_ts[d] ELSE ps[1].ts
            /\ variant[d] = "util" => result[d].slack_message_ts = ps[1].ts

\* C3, its case: util.py has delivered an answer of exactly SLACK_TEXT_LIMIT
\* characters into an existing thread, in one post.
C3_Witness ==
    \E d \in Deliveries :
        /\ Delivered(d)
        /\ variant[d] = "util"
        /\ thread_ts[d] = ExistingThread
        /\ Len(claude_response[d]) = SLACK_TEXT_LIMIT
        /\ Len(PostsOf(d)) = 1
        /\ result[d].thread_ts = ExistingThread

\* C4: when a post of a delivery fails, exactly one error notification is
\* posted to the same channel, and, whether or not the notification itself
\* fails, the delivery ends raising to its caller with the failed send as cause.
C4_FailedSendNotifiedAndRaised ==
    \A d \in Deliveries :
        (pc[d] = "done" /\ FailedSends(d) # {}) =>
            /\ Cardinality({i \in 1..Len(posts) :
                    /\ posts[i].delivery = d
                    /\ posts[i].kind = "error"
                    /\ posts[i].channel = ChannelOf(d)}) = 1
            /\ result[d].status = "raised"
            /\ result[d].cause.op = "post"
            /\ result[d].cause.at \in FailedSends(d)

\* C5: after a post of a delivery has failed, the delivery posts nothing but
\* the one error notification: not the failed message again, no later chunk.
C5_NothingSentAfterFailure ==
    \A d \in Deliveries :
        LET ps == PostsOf(d) IN
        \A i \in 1..Len(ps) :
            (ps[i].kind # "error" /\ ~ps[i].ok) =>
                /\ Len(ps) <= i + 1
                /\ Len(ps) = i + 1 => ps[i + 1].kind = "error"

\* C6: when the caller gives a parent message id, the first message and every
\* chunk of the delivery are posted with that id as parent.
C6_CallerParentOnEveryMessage ==
    \A i \in 1..Len(posts) :
        (thread_ts[posts[i].delivery] # None /\ posts[i].kind # "error") =>
            posts[i].thread_ts = thread_ts[posts[i].delivery]

\* C9, the labels: the k-th chunk post of a delivery carries chunks[k], is
\* labelled k/n, and has the footer exactly when k = n; a placeholder and a
\* notification have no footer; a delivery that returns has posted n chunks.
C9_LabelsAndFooter ==
    \A d \in Deliveries :
        LET cs == ChunkPostsOf(d)
            n == Len(chunks[d])
        IN /\ Len(cs) <= n
           /\ Delivered(d) /\ Len(claude_response[d]) > SLACK_TEXT_LIMIT
                 /\ variant[d] # "main" => (n > 0 /\ Len(cs) = n)
           /\ \A k \in 1..Len(cs) :
                 /\ cs[k].number = k
                 /\ cs[k].total = n
                 /\ cs[k].body = IF variant[d] = "utils"
                                 THEN strip(chunks[d][k]) ELSE chunks[d][k]
                 /\ cs[k].footer = (k = n)
           /\ \A i \in 1..Len(posts) :
                 posts[i].kind \in {"placeholder", "error"} => ~posts[i].footer

\* C9, the order: the chunks a delivery loops over are the list the splitter
\* returned for the answer, set once.
C9_ChunksFromSplitter ==
    \A d \in Deliveries :
        chunks'[d] # chunks[d] =>
            /\ chunks[d] = <<>>
            /\ chunks'[d] = split_long_message(claude_response[d], SLACK_TEXT_LIMIT)

\* C9: the chunks are posted in the order the splitter returned them, the
\* k-th of n labelled k/n, and the model/timestamp footer is on the n-th chunk
\* only: not on the placeholder, not on an earlier chunk.
C9_ChunksInOrderLabelledFooterLast ==
    []C9_LabelsAndFooter /\ [][C9_ChunksFromSplitter]_vars

\* C9, its case: a delivery of three or more chunks has posted them all.
C9_Witness ==
    \E d \in Deliveries :
        /\ Delivered(d)
        /\ Len(chunks[d]) >= 3
        /\ Len(ChunkPostsOf(d)) = Len(chunks[d])
        /\ ChunkPostsOf(d)[Len(chunks[d])].footer
        /\ ~ChunkPostsOf(d)[1].footer

\* C10: the error notification goes into the thread of the delivery: when the
\* first message was posted and the caller gave no parent, the notification
\* has the ts of the first message as parent.
C10_NotificationInThread ==
    \A i \in 1..Len(posts) :
        LET d == posts[i].delivery IN
        (posts[i].kind = "error" /\ thread_ts[d] = None /\ slack_response[d] # None) =>
            posts[i].thread_ts = slack_response[d]

\* C24: when two deliveries run at once to the same channel, under every
\* interleaving of their posts each chunk is posted with, as parent, what the
\* first post of its own delivery returned as ts; it is never attached to a
\* message of the other delivery; and the chunks of each delivery are posted in
\* ascending order 1, 2, ...
C24_ChunksStayInOwnThread ==
    /\ \A i \in 1..Len(posts) :
          posts[i].kind = "chunk" =>
             /\ posts[i].thread_ts = PostsOf(posts[i].delivery)[1].ts
             /\ \A j \in 1..Len(posts) :
                   (posts[j].delivery # posts[i].delivery /\ posts[j].ts # None)
                   => posts[i].thread_ts # posts[j].ts
    /\ \A d \in Deliveries :
          \A k \in 1..Len(ChunkPostsOf(d)) : ChunkPostsOf(d)[k].number = k

\* Both deliveries are over with every post accepted, and their posts
\* alternated: first message and chunks of one between those of the other.
C24_Witness ==
    /\ \A d \in Deliveries : Delivered(d) /\ Len(ChunkPostsOf(d)) = 2
    /\ Len(posts) = 6
    /\ \A i \in 1..5 : posts[i].delivery # posts[i + 1].delivery
    /\ \A i \in 1..6 : posts[i].kind = "chunk" => posts[i].thread_ts # None

\* C23: for a text T longer than the limit L, split_long_message(T, L)
\* returns no empty chunk, so no numbered chunk message has an empty body.
C23_NoEmptyChunk ==
    (returned = "yes" /\ Len(message) > max_length)
    => \A i \in 1..Len(chunks_out) : chunks_out[i] # Empty

\* ------------------------------------------------------ the session store

\* The history the store of module i holds in memory.
HistoryOf(i) == session_manager[i].history

\* The store the handler of a route works on.
StoreOf(route) == IF route = "/mcp" THEN "router" ELSE "web_router"

\* The ask request's pipeline has completed successfully: the completion
\* call returned, the answer was posted and the task or handler returned.
Succeeded(ask) == ask.stage = "returned" /\ ask.completion = "ok" /\ ask.delivered

IsPrefix(s, t) == Len(s) <= Len(t) /\ \A j \in 1..Len(s) : s[j] = t[j]

\* C11: when the pipeline of an ask request completes successfully, the
\* history of its store holds exactly one entry for the question, and the
\* assistant field of that entry is the delivered answer (so no entry with
\* the empty placeholder remains for it).
C11_OneEntryHoldingTheAnswer ==
    [][\A k \in 1..Len(asks') :
          (Succeeded(asks'[k]) /\ ~(k <= Len(asks) /\ Succeeded(asks[k])))
          => LET history == session_manager'[StoreOf(asks'[k].route)].history
                 entries == {j \in 1..Len(history) :
                                history[j].user = Question(asks'[k].n)}
             IN  /\ Cardinality(entries) = 1
                 /\ \A j \in entries : history[j].assistant = asks'[k].answer]_vars

\* C12: after add_task, append_history or add_full_history saved the session,
\* the persisted history holds every turn the routes recorded since the last
\* start_session, whichever route recorded it.
C12_PersistedHistoryHoldsEveryTurn ==
    (last_save.outcome = "written" /\ last_save.op # "import_history_from_messages")
    => \A j \in 1..Len(recorded) :
           \E m \in 1..Len(session_file.data.history) :
               session_file.data.history[m] = recorded[j]

\* C13: an operation other than start_session leaves the history it found
\* as a prefix of the history it leaves: nothing is removed, changed or
\* reordered, and new entries come after the old ones.
C13_HistoryOnlyGrowsAtTheEnd ==
    [][last_call'.op # "start_session"
       => \A i \in Instances : IsPrefix(HistoryOf(i), session_manager'[i].history)]_vars

\* An import added two entries after the entry a previous run left.
C13_Witness ==
    /\ last_call.op = "import_history_from_messages"
    /\ last_call.outcome = "returned"
    /\ HistoryOf(last_call.instance) =
           <<Entry(Question(0), Answer(0)), Entry(SlackMessage(2), NoAnswerYet),
             Entry(SlackMessage(1), NoAnswerYet)>>

\* C14, the view: after get_current_session the view holds at most K
\* entries, and they are the last min(K, len(history)) entries of the stored
\* history, in stored order.
C14_ViewIsTheLastEntries ==
    last_call.op = "get_current_session"
    => LET history == HistoryOf(last_call.instance)
           view == last_call.view.history
           n == IF Len(history) < K THEN Len(history) ELSE K
       IN  /\ Len(view) <= K
           /\ Len(view) = n
           /\ \A j \in 1..n : view[j] = history[Len(history) - n + j]

\* C14, the frame: a call of get_current_session on its own leaves every
\* store's fields and the session file as they were.
C14_ViewChangesNothing ==
    (last_call'.op = "get_current_session" /\ calls' # calls /\ asks' = asks)
    => UNCHANGED <<session_manager, session_file>>

\* C14: the recent view of get_current_session holds at most K = 3 entries,
\* exactly the last min(K, len(history)) stored ones in stored order, and
\* computing it changes neither the stored history nor the persisted file.
C14_RecentView == []C14_ViewIsTheLastEntries /\ [][C14_ViewChangesNothing]_vars

\* A view was taken of a history longer than K.
C14_Witness ==
    /\ last_call.op = "get_current_session"
    /\ Len(HistoryOf(last_call.instance)) > K
    /\ Len(last_call.view.history) = K

\* C15: once a mutating operation has returned, the session file holds the
\* JSON document of exactly the context, environment, tasks and history its
\* store has in memory.
C15_FileHoldsTheMemory ==
    last_save.outcome = "written"
    => /\ session_file.state = "json"
       /\ session_file.data.context = session_manager[last_save.instance].context
       /\ session_file.data.environment = session_manager[last_save.instance].environment
       /\ session_file.data.tasks = session_manager[last_save.instance].tasks
       /\ session_file.data.history = session_manager[last_save.instance].history

\* add_full_history returned with a task and a history in memory.
C15_Witness ==
    /\ last_save = Save("add_full_history", "web_router", "written")
    /\ session_manager["web_router"].tasks # <<>>
    /\ Len(session_file.data.history) > 1

\* C16: load_session never fails its caller: when the file exists and cannot
\* be parsed, it returns and the store starts with empty fields.
C16_LoadNeverFails ==
    (last_call.op = "load_session" /\ session_file.state = "broken")
    => /\ last_call.outcome = "returned"
       /\ imported[last_call.instance] = "yes"
       /\ session_manager[last_call.instance] = EmptySession

\* C17: a write error in save_session is swallowed: the operation that
\* saved returns normally, and the change it made in memory is kept.
C17_WriteErrorSwallowed ==
    (SaveRaises(last_save.outcome) /\ last_save.outcome # "none"
        /\ last_call.op = last_save.op /\ last_call.instance = last_save.instance)
    => last_call.outcome = "returned"

\* C18: an ask request whose completion call failed ends in failure, has no
\* answer text posted (at most one post, the notification) and has nothing
\* recorded as the assistant's answer in any store's history.
C18_CompletionFailureIsFatal ==
    \A k \in 1..Len(asks) :
        asks[k].completion = "raises"
        => /\ asks[k].stage = "raised"
           /\ asks[k].status # 200 \/ asks[k].route = "/send"
           /\ Cardinality({j \in 1..Len(sent) : sent[j].ask = asks[k].n}) <= 1
           /\ \A j \in 1..Len(sent) : sent[j].ask = asks[k].n => sent[j].text # Answer(asks[k].n)
           /\ \A i \in Instances : \A j \in 1..Len(HistoryOf(i)) :
                  HistoryOf(i)[j].user = Question(asks[k].n)
                  => HistoryOf(i)[j].assistant = Placeholder

\* C22, the reset: once start_session(c, e) has returned, its store holds
\* context c, environment e, no task and no history, and the session file
\* holds the JSON document of the same four values.
C22_StoreIsReset ==
    (last_call.op = "start_session" /\ last_call.outcome = "returned")
    => /\ started.called
       /\ session_manager[last_call.instance] =
              [context |-> started.context, environment |-> started.environment,
               tasks |-> <<>>, history |-> <<>>]
       /\ session_file.state = "json"
       /\ session_file.data =
              [context |-> started.context, environment |-> started.environment,
               tasks |-> <<>>, history |-> <<>>]

\* C22, the view: a get_current_session that follows the start_session on
\* the same store returns an empty history (and no task).
C22_NextViewIsEmpty ==
    (/\ last_call.op = "start_session"
     /\ last_call.outcome = "returned"
     /\ last_call'.op = "get_current_session"
     /\ last_call'.instance = last_call.instance)
    => /\ last_call'.view.history = <<>>
       /\ last_call'.view.tasks = <<>>
       /\ last_call'.view.context = started.context
       /\ last_call'.view.environment = started.environment

\* C22: after start_session(c, e), from any prior state of the store, the
\* store's context is c, its environment is e and its tasks and history are
\* empty, in memory and in the session file; the recent view that follows
\* has an empty history.
C22_StartSessionResets == []C22_StoreIsReset /\ [][C22_NextViewIsEmpty]_vars

\* start_session("ctx2", "env1") returned on a store that had loaded the
\* context, task and history of an earlier run, and the view was taken.
C22_Witness ==
    /\ last_call.op = "get_current_session"
    /\ last_call.instance = "router"
    /\ last_call.view.history = <<>>
    /\ started = Started("ctx2", "env1")
    /\ session_manager["router"].context = "ctx2"
    /\ session_manager["web_router"] = PriorSession
    /\ calls = 2

\* --------------------------------------------------------- the HTTP layer

\* The handler of the request ran and its validation rejects the request:
\* /messages without a destination channel (none given, none configured) or
\* with an empty message list, /ask_with_slack with no context message fetched.
FailsValidation ==
    /\ handled_by # None
    /\ \/ /\ request.route = "/messages"
          /\ \/ request.slack_channel = None /\ DEFAULT_SLACK_CHANNEL = None
             \/ request.messages = "empty"
       \/ /\ request.route = "/ask_with_slack"
          /\ slack_messages = "none"

\* C19: a request that fails validation is answered 400 and schedules no
\* background task: no completion call and no post is ever made for it.
C19_InvalidRequestRejectedBeforeWork ==
    FailsValidation
    => /\ status_code = 400
       /\ background_tasks = <<>>
       /\ completion_calls = 0
       /\ post_calls = 0

\* /messages was called with a destination and an empty message list.
C19_Witness ==
    /\ request.route = "/messages"
    /\ request.slack_channel # None
    /\ request.messages = "empty"
    /\ handled_by = "process_messages"
    /\ stage = "responded"

\* C20: a request whose client address is not 127.0.0.1, localhost or ::1 is
\* answered 403 whatever its key, no route handler runs for it and no
\* background task is scheduled for it.
C20_OnlyLoopbackIsServed ==
    request.client_host \notin {"127.0.0.1", "localhost", "::1"}
    => /\ handled_by = None
       /\ background_tasks = <<>>
       /\ completion_calls = 0
       /\ stage \in {"idle", "received", "responded"}
       /\ stage = "responded" => status_code = 403

\* A request from another machine of the local network, with the valid key,
\* was answered.
C20_Witness ==
    /\ request.client_host = "192.168.0.10"
    /\ request.api_key = "valid"
    /\ request.route = "/messages"
    /\ stage = "responded"
    /\ status_code = 403

\* The routes that are neither the health check nor the UI page; each of
\* them makes a completion call, posts or reads channel data.
WorkingRoutes == Routes \ {"/", "/health"}

\* C21: a request without the valid key to a route other than the health
\* and UI routes is rejected: no handler runs for it, no channel data is read,
\* nothing is posted, no task is scheduled and no completion call is made.
C21_KeyCheckedOnEveryWorkingRoute ==
    (request.api_key # "valid" /\ request.route \in WorkingRoutes)
    => /\ handled_by = None
       /\ channel_read = FALSE
       /\ post_calls = 0
       /\ completion_calls = 0
       /\ background_tasks = <<>>
       /\ stage = "responded" => status_code \in {401, 403}

====
